---- MODULE Spec2Model ----
(***************************************************************************)
(* PatchTrap (src/PatchTrap.py): a runtime integrity monitor.  It seals a  *)
(* baseline fingerprint for a list of dotted names, runs a guarded script  *)
(* in the same interpreter, scans the names, the import hook chain and the *)
(* environment at checkpoints, optionally restores replaced bindings, and  *)
(* writes a report.                                                        *)
(*                                                                         *)
(* The model's state is the PatchTrap object's fields, the part of the     *)
(* interpreter it reads and writes (the watched bindings, sys.meta_path,   *)
(* os.environ, sys.argv, the report file), and the position of run().      *)
(* Three specifications share the actions:                                 *)
(*   Spec      the harness: seal, run (every way the script can end)       *)
(*   SpecScan  the sealing and scanning engine called directly             *)
(*   SpecEnv   the ambient diff over every baseline/current environment    *)
(***************************************************************************)
EXTENDS Integers, Sequences, FiniteSets, TLC

VARIABLES
    targets,       \* self.targets: the list of dotted names
    auto_restore,  \* self.auto_restore
    interval,      \* self.interval
    baseline,      \* self.baseline: dotted -> {fp, container, attr}
    originals,     \* self.originals: dotted -> value retained at seal
    meta_path0,    \* self.meta_path0
    env0,          \* self.env0
    alerts,        \* self.alerts
    report,        \* self.report
    bind,          \* the interpreter: the value each dotted name is bound to
    frozen,        \* the interpreter: module m rejects setattr
    meta_path,     \* sys.meta_path
    env,           \* os.environ
    argv,          \* sys.argv
    report_file,   \* what has been written to patchtrap_report.json, one entry per write
    clock,         \* time.time()
    pc,            \* where the caller / run() is
    run,           \* run()'s locals: old_argv, rc, start, and how the script ended
    sealed,        \* history: "no" | "ok" | "raised", and the ambient state seal() ran in
    last_scan,     \* history: the state the latest _scan_once() started in and what it appended
    trace,         \* history: the order of the harness's steps
    rebound        \* history: the names rebound by outside code since the latest seal or scan

vars == <<targets, auto_restore, interval, baseline, originals, meta_path0, env0,
          alerts, report, bind, frozen, meta_path, env, argv, report_file, clock,
          pc, run, sealed, last_scan, trace, rebound>>

config  == <<targets, auto_restore, interval>>
object  == <<baseline, originals, meta_path0, env0>>
heap    == <<bind, frozen, meta_path, env>>

----------------------------------------------------------------------------
(* Bounds of the model *)

MaxTargets == 2     \* longest target list
MaxElapsed == 1     \* longest time the guarded script takes, in clock units

----------------------------------------------------------------------------
(* The interpreter's values *)

\* A dotted name is modelled by its segments ("m.f" is <<"m", "f">>).
NameF == <<"m", "f">>
NameG == <<"m", "g">>
NameBad == <<"f">>          \* a name with a single segment
Slots == {NameF, NameG}     \* the binding sites of module m
TargetNames == Slots \cup {NameBad}

\* A value: its kind, `sig` (what _fingerprint_callable reads of it: for a
\* function the code object's co_code, co_consts, co_names, co_varnames,
\* co_filename and co_firstlineno; for anything else module, qualname and the
\* first 80 characters of repr) and `hid` (what it does not read: closure
\* cells, defaults, globals, the rest of repr, object identity).
Val(k, s, h) == [kind |-> k, sig |-> s, hid |-> h]
F0  == Val("function", 1, 0)   \* the function m.f is bound to at start
F0c == Val("function", 1, 1)   \* another closure over the same code object
G0  == Val("function", 2, 0)   \* the function m.g is bound to at start
B0  == Val("builtin", 3, 0)    \* a builtin
K0  == Val("callable", 3, 0)   \* an instance of a class with __call__
N0  == Val("object", 3, 0)     \* a non-callable
X0  == Val("broken", 3, 0)     \* a callable whose repr() raises
Missing == Val("missing", 0, 0) \* the attribute does not exist

Values == {F0, F0c, G0, B0, K0, N0, X0}


\* sys.meta_path holds finder objects; the scan reads only type(x).__name__.
Hook(tn, id) == [tn |-> tn, id |-> id]
MetaBase == <<Hook("BuiltinImporter", 0), Hook("PathFinder", 0)>>
MetaPaths ==
    { MetaBase,
      <<Hook("EvilFinder", 0)>> \o MetaBase,                      \* a hook inserted in front
      <<Hook("PathFinder", 0), Hook("BuiltinImporter", 0)>>,      \* the chain reordered
      <<Hook("BuiltinImporter", 0), Hook("PathFinder", 1)>> }     \* a hook swapped for another of the same type

\* os.environ: a mapping from some of EnvKeys to EnvVals.
EnvKeys == {"A", "B", "C"}
EnvVals == {"x", "y"}
Envs == UNION {[D -> EnvVals] : D \in SUBSET EnvKeys}

\* What a script can pass to sys.exit(): nothing, an integer, or a string.
CodeNone   == [t |-> "none", n |-> 0, s |-> <<>>]
CodeInt(n) == [t |-> "int", n |-> n, s |-> <<>>]
CodeStr(s) == [t |-> "str", n |-> 0, s |-> s]
ExitCodes == {CodeNone, CodeInt(0), CodeInt(7), CodeStr(<<"7">>), CodeStr(<<"b", "a", "d">>)}

\* How the guarded script ends.
Outcome(k, c) == [kind |-> k, code |-> c]
NotEnded == Outcome("running", CodeNone)
Outcomes ==
    {Outcome("normal", CodeNone), Outcome("exception", CodeNone), Outcome("interrupt", CodeNone)}
    \cup {Outcome("exit", c) : c \in ExitCodes}

\* The lists of at most MaxTargets names drawn from S.
TargetLists(S) == UNION {[1..n -> S] : n \in 0..MaxTargets}

\* The --args strings tried, as sequences of characters.
ArgLines == {<<>>, <<"a", " ", " ", "b">>, <<" ", "b", " ">>}
TargetPath == <<"s", ".", "p", "y">>
StartArgv == <<<<"p", "t">>, <<"r", "u", "n">>>>

\* The interval arguments tried: negative, zero, a wait, and a number of seconds
\* beyond what the platform's time_t holds (such as 1e20).
IntervalInputs == {-1, 0, 1, 2}

\* The delays time.sleep() accepts; it raises OverflowError on any longer one.
TimeT == 0..1

----------------------------------------------------------------------------
(* tiny helpers and fingerprint *)

\* hashlib.sha256 over a payload, taken to be collision-free.
Sha256Bytes(b) == <<"sha256", b>>

\* type(obj).__name__
TypeName(v) ==
    CASE v.kind = "function" -> "function"
      [] v.kind = "builtin"  -> "builtin_function_or_method"
      [] v.kind = "callable" -> "Callable"
      [] v.kind = "broken"   -> "Broken"
      [] OTHER               -> "object"

\* The tag or payload each branch of _fingerprint_callable hashes.
FingerprintTag(v) ==
    CASE v.kind = "function" -> <<"code", v.sig>>
      [] v.kind = "builtin"  -> <<"builtin", v.sig>>
      [] v.kind = "callable" -> <<"callable", v.sig>>
      [] v.kind = "broken"   -> <<"error", 0>>       \* error:<type>:<repr(e)>, nothing of the value
      [] OTHER               -> <<"not-callable", v.sig>>

FingerprintCallable(v) ==
    [type |-> TypeName(v), hash |-> Sha256Bytes(FingerprintTag(v)), where |-> FingerprintTag(v)]

\* _resolve_dotted against the bindings b: a name of fewer than two segments
\* raises ValueError, a missing attribute raises AttributeError.
ResolveDotted(name, b) ==
    IF Len(name) < 2
    THEN [ok |-> FALSE, error |-> "ValueError", container |-> "", val |-> Missing,
          container_qual |-> "", attr |-> ""]
    ELSE IF name \notin DOMAIN b \/ b[name] = Missing
    THEN [ok |-> FALSE, error |-> "AttributeError", container |-> "", val |-> Missing,
          container_qual |-> "", attr |-> ""]
    ELSE [ok |-> TRUE, error |-> "", container |-> name[1], val |-> b[name],
          container_qual |-> name[1], attr |-> name[Len(name)]]

----------------------------------------------------------------------------
(* core guard api *)

\* A mapping extended or overwritten at one key (d[k] = v on a dict).
Put(d, k, v) == [x \in DOMAIN d \cup {k} |-> IF x = k THEN v ELSE d[x]]
NoEntries == [k \in {} |-> 0]

BaselineEntry(r) ==
    [fp |-> FingerprintCallable(r.val), container |-> r.container_qual, attr |-> r.attr]

\* A variant of seal()'s loop that skips a target that does not resolve.
RECURSIVE SealFromSkipping(_, _, _, _, _)
SealFromSkipping(i, tgts, b, base, orig) ==
    IF i > Len(tgts)
    THEN [baseline |-> base, originals |-> orig, raised |-> FALSE]
    ELSE LET r == ResolveDotted(tgts[i], b) IN
         IF ~r.ok
         THEN SealFromSkipping(i + 1, tgts, b, base, orig)
         ELSE SealFromSkipping(i + 1, tgts, b,
                               [x \in DOMAIN base \cup {tgts[i]} |->
                                   IF x = tgts[i]
                                   THEN [fp |-> FingerprintCallable(r.val),
                                         container |-> r.container_qual, attr |-> r.attr]
                                   ELSE base[x]],
                               [x \in DOMAIN orig \cup {tgts[i]} |->
                                   IF x = tgts[i] THEN r.val ELSE orig[x]])

\* seal()'s loop from index i on: stops at the first target that does not
\* resolve, with the exception escaping.
RECURSIVE SealFrom(_, _, _, _, _)
SealFrom(i, tgts, b, base, orig) ==
    IF i > Len(tgts)
    THEN [baseline |-> base, originals |-> orig, raised |-> FALSE]
    ELSE LET r == ResolveDotted(tgts[i], b) IN
         IF ~r.ok
         THEN [baseline |-> base, originals |-> orig, raised |-> TRUE]
         ELSE SealFrom(i + 1, tgts, b, Put(base, tgts[i], BaselineEntry(r)),
                       Put(orig, tgts[i], r.val))

\* The alerts.
ResolveErrorAlert(t, e) == [kind |-> "resolve_error", target |-> t, error |-> e]
ReplacedAlert(t, before, after) ==
    [kind |-> "replaced", target |-> t, before |-> before, after |-> after]
RestoreOkAlert(t) == [kind |-> "restore", target |-> t, status |-> "ok"]
RestoreFailAlert(t, e) == [kind |-> "restore", target |-> t, status |-> "fail", error |-> e]
MetaPathAlert(before, after) == [kind |-> "meta_path_changed", before |-> before, after |-> after]
EnvAlert(added, removed, changed) ==
    [kind |-> "env_changed", added |-> added, removed |-> removed, changed |-> changed]
ExceptionAlert(e) == [kind |-> "exception", error |-> e]

\* Variants of the loop body of _scan_once(): one compares the value found with
\* the retained original instead of comparing hashes; one records a restore
\* without rebinding; one skips an unsealed target before resolving it.
ScanTargetByIdentity(t, b, al, base, orig, auto, frz) ==
    LET r == ResolveDotted(t, b) IN
    IF ~r.ok
    THEN [bind |-> b, alerts |-> Append(al, [kind |-> "resolve_error", target |-> t, error |-> r.error])]
    ELSE IF t \notin DOMAIN base \/ r.val = orig[t]
    THEN [bind |-> b, alerts |-> al]
    ELSE LET al1 == Append(al, [kind |-> "replaced", target |-> t, before |-> base[t].fp,
                                after |-> FingerprintCallable(r.val)]) IN
         IF ~auto
         THEN [bind |-> b, alerts |-> al1]
         ELSE IF frz
         THEN [bind |-> b,
               alerts |-> Append(al1, [kind |-> "restore", target |-> t, status |-> "fail",
                                       error |-> "AttributeError"])]
         ELSE [bind |-> [b EXCEPT ![t] = orig[t]],
               alerts |-> Append(al1, [kind |-> "restore", target |-> t, status |-> "ok"])]

ScanTargetNoRebind(t, b, al, base, orig, auto, frz) ==
    LET r == ResolveDotted(t, b) IN
    IF ~r.ok
    THEN [bind |-> b, alerts |-> Append(al, [kind |-> "resolve_error", target |-> t, error |-> r.error])]
    ELSE IF t \notin DOMAIN base \/ FingerprintCallable(r.val).hash = base[t].fp.hash
    THEN [bind |-> b, alerts |-> al]
    ELSE LET al1 == Append(al, [kind |-> "replaced", target |-> t, before |-> base[t].fp,
                                after |-> FingerprintCallable(r.val)]) IN
         IF ~auto
         THEN [bind |-> b, alerts |-> al1]
         ELSE IF frz
         THEN [bind |-> b,
               alerts |-> Append(al1, [kind |-> "restore", target |-> t, status |-> "fail",
                                       error |-> "AttributeError"])]
         ELSE [bind |-> b,
               alerts |-> Append(al1, [kind |-> "restore", target |-> t, status |-> "ok"])]

ScanTargetBaselineFirst(t, b, al, base, orig, auto, frz) ==
    IF t \notin DOMAIN base
    THEN [bind |-> b, alerts |-> al]
    ELSE LET r == ResolveDotted(t, b) IN
    IF ~r.ok
    THEN [bind |-> b, alerts |-> Append(al, [kind |-> "resolve_error", target |-> t, error |-> r.error])]
    ELSE IF FingerprintCallable(r.val).hash = base[t].fp.hash
    THEN [bind |-> b, alerts |-> al]
    ELSE LET al1 == Append(al, [kind |-> "replaced", target |-> t, before |-> base[t].fp,
                                after |-> FingerprintCallable(r.val)]) IN
         IF ~auto
         THEN [bind |-> b, alerts |-> al1]
         ELSE IF frz
         THEN [bind |-> b,
               alerts |-> Append(al1, [kind |-> "restore", target |-> t, status |-> "fail",
                                       error |-> "AttributeError"])]
         ELSE [bind |-> [b EXCEPT ![t] = orig[t]],
               alerts |-> Append(al1, [kind |-> "restore", target |-> t, status |-> "ok"])]

\* A variant that puts a `replaced` alert at the head of the log.
ScanTargetPrepending(t, b, al, base, orig, auto, frz) ==
    LET r == ResolveDotted(t, b) IN
    IF ~r.ok
    THEN [bind |-> b, alerts |-> Append(al, [kind |-> "resolve_error", target |-> t, error |-> r.error])]
    ELSE IF t \notin DOMAIN base \/ FingerprintCallable(r.val).hash = base[t].fp.hash
    THEN [bind |-> b, alerts |-> al]
    ELSE LET al1 == <<[kind |-> "replaced", target |-> t, before |-> base[t].fp,
                       after |-> FingerprintCallable(r.val)]>> \o al IN
         IF ~auto
         THEN [bind |-> b, alerts |-> al1]
         ELSE IF frz
         THEN [bind |-> b,
               alerts |-> Append(al1, [kind |-> "restore", target |-> t, status |-> "fail",
                                       error |-> "AttributeError"])]
         ELSE [bind |-> [b EXCEPT ![t] = orig[t]],
               alerts |-> Append(al1, [kind |-> "restore", target |-> t, status |-> "ok"])]

\* A variant that restores whatever auto_restore says.
ScanTargetAlwaysRestore(t, b, al, base, orig, auto, frz) ==
    LET r == ResolveDotted(t, b) IN
    IF ~r.ok
    THEN [bind |-> b, alerts |-> Append(al, [kind |-> "resolve_error", target |-> t, error |-> r.error])]
    ELSE IF t \notin DOMAIN base \/ FingerprintCallable(r.val).hash = base[t].fp.hash
    THEN [bind |-> b, alerts |-> al]
    ELSE LET al1 == Append(al, [kind |-> "replaced", target |-> t, before |-> base[t].fp,
                                after |-> FingerprintCallable(r.val)]) IN
         IF frz
         THEN [bind |-> b,
               alerts |-> Append(al1, [kind |-> "restore", target |-> t, status |-> "fail",
                                       error |-> "AttributeError"])]
         ELSE [bind |-> [b EXCEPT ![t] = orig[t]],
               alerts |-> Append(al1, [kind |-> "restore", target |-> t, status |-> "ok"])]

\* A variant that also reports a sealed target that was rebound since the
\* latest checkpoint, whatever it is bound to now.
ScanTargetByHistory(t, b, al, base, orig, auto, frz) ==
    LET r == ResolveDotted(t, b) IN
    IF ~r.ok
    THEN [bind |-> b, alerts |-> Append(al, [kind |-> "resolve_error", target |-> t, error |-> r.error])]
    ELSE IF t \notin DOMAIN base
    THEN [bind |-> b, alerts |-> al]
    ELSE IF FingerprintCallable(r.val).hash = base[t].fp.hash /\ t \notin rebound
    THEN [bind |-> b, alerts |-> al]
    ELSE LET al1 == Append(al, [kind |-> "replaced", target |-> t, before |-> base[t].fp,
                                after |-> FingerprintCallable(r.val)]) IN
         IF ~auto
         THEN [bind |-> b, alerts |-> al1]
         ELSE IF frz
         THEN [bind |-> b,
               alerts |-> Append(al1, [kind |-> "restore", target |-> t, status |-> "fail",
                                       error |-> "AttributeError"])]
         ELSE [bind |-> [b EXCEPT ![t] = orig[t]],
               alerts |-> Append(al1, [kind |-> "restore", target |-> t, status |-> "ok"])]

\* One pass of _scan_once()'s loop body for target t, from bindings b and
\* alert log al: the bindings and the log it leaves.
ScanTarget(t, b, al, base, orig, auto, frz) ==
    LET r == ResolveDotted(t, b) IN
    IF ~r.ok
    THEN [bind |-> b, alerts |-> Append(al, ResolveErrorAlert(t, r.error))]
    ELSE IF t \notin DOMAIN base
    THEN [bind |-> b, alerts |-> al]
    ELSE LET fp_now == FingerprintCallable(r.val) IN
         IF fp_now.hash = base[t].fp.hash
         THEN [bind |-> b, alerts |-> al]
         ELSE LET al1 == Append(al, ReplacedAlert(t, base[t].fp, fp_now)) IN
              IF ~auto
              THEN [bind |-> b, alerts |-> al1]
              ELSE IF frz
              THEN [bind |-> b, alerts |-> Append(al1, RestoreFailAlert(t, "AttributeError"))]
              ELSE [bind |-> [b EXCEPT ![t] = orig[t]],
                    alerts |-> Append(al1, RestoreOkAlert(t))]

\* A variant of the loop that stops at the first target that does not resolve.
RECURSIVE ScanTargetsAborting(_, _, _, _, _, _, _, _)
ScanTargetsAborting(i, tgts, b, al, base, orig, auto, frz) ==
    IF i > Len(tgts)
    THEN [bind |-> b, alerts |-> al]
    ELSE LET s == ScanTarget(tgts[i], b, al, base, orig, auto, frz) IN
         IF ~ResolveDotted(tgts[i], b).ok
         THEN s
         ELSE ScanTargetsAborting(i + 1, tgts, s.bind, s.alerts, base, orig, auto, frz)

RECURSIVE ScanTargets(_, _, _, _, _, _, _, _)
ScanTargets(i, tgts, b, al, base, orig, auto, frz) ==
    IF i > Len(tgts)
    THEN [bind |-> b, alerts |-> al]
    ELSE LET s == ScanTarget(tgts[i], b, al, base, orig, auto, frz) IN
         ScanTargets(i + 1, tgts, s.bind, s.alerts, base, orig, auto, frz)

\* [type(x).__name__ for x in mp]
HookNames(mp) == [i \in 1..Len(mp) |-> mp[i].tn]

\* The meta_path check: the alerts it appends.
MetaPathCheck(mp0, mp_now) ==
    IF HookNames(mp_now) # HookNames(mp0)
    THEN <<MetaPathAlert(HookNames(mp0), HookNames(mp_now))>>
    ELSE <<>>

\* The environment check: the alerts it appends.
EnvAdded(e0, e_now)   == DOMAIN e_now \ DOMAIN e0
EnvRemoved(e0, e_now) == DOMAIN e0 \ DOMAIN e_now
\* A variant that takes every variable present in both as changed.
EnvChangedAnyShared(e0, e_now) == DOMAIN e_now \cap DOMAIN e0
EnvChanged(e0, e_now) == {k \in DOMAIN e_now \cap DOMAIN e0 : e_now[k] # e0[k]}
EnvCheck(e0, e_now) ==
    LET added   == EnvAdded(e0, e_now)
        removed == EnvRemoved(e0, e_now)
        changed == EnvChanged(e0, e_now)
    IN  IF added # {} \/ removed # {} \/ changed # {}
        THEN <<EnvAlert([k \in added |-> e_now[k]],
                        [k \in removed |-> e0[k]],
                        [k \in changed |-> [before |-> e0[k], after |-> e_now[k]]])>>
        ELSE <<>>

\* _scan_once() from the current state: the bindings and the log it leaves.
ScanOnce ==
    LET s == ScanTargets(1, targets, bind, alerts, baseline, originals, auto_restore, frozen) IN
    [bind |-> s.bind,
     alerts |-> s.alerts \o MetaPathCheck(meta_path0, meta_path) \o EnvCheck(env0, env)]

\* What a scan records of itself: the state it started in and what it appended.
ScanRecord(s) ==
    [n |-> last_scan.n + 1,
     bind |-> bind, frozen |-> frozen, meta_path |-> meta_path, env |-> env,
     out |-> SubSeq(s.alerts, Len(alerts) + 1, Len(s.alerts)),
     after_seal |-> trace # <<>> /\ trace[Len(trace)] = "seal",
     rebound |-> rebound]

----------------------------------------------------------------------------
(* run()'s helpers *)

\* str.split(): the maximal runs of non-blank characters.
RECURSIVE SplitFrom(_, _, _)
SplitFrom(line, i, word) ==
    IF i > Len(line)
    THEN IF word = <<>> THEN <<>> ELSE <<word>>
    ELSE IF line[i] = " "
    THEN (IF word = <<>> THEN <<>> ELSE <<word>>) \o SplitFrom(line, i + 1, <<>>)
    ELSE SplitFrom(line, i + 1, Append(word, line[i]))
Split(line) == SplitFrom(line, 1, <<>>)

\* A variant that passes the args string on as one argument.
RunArgvUnsplit(target_path, args_line) ==
    <<target_path>> \o (IF args_line # <<>> THEN <<args_line>> ELSE <<>>)

\* [target_path] + (args_line.split() if args_line else [])
RunArgv(target_path, args_line) ==
    <<target_path>> \o (IF args_line # <<>> THEN Split(args_line) ELSE <<>>)

\* Python truthiness of an exit code, and `code or 0`.
Truthy(c) ==
    CASE c.t = "int" -> c.n # 0
      [] c.t = "str" -> c.s # <<>>
      [] OTHER       -> FALSE
OrZero(c) == IF Truthy(c) THEN c ELSE CodeInt(0)

\* int(): an integer is itself, a string of decimal digits is its number, any
\* other string raises ValueError.
DigitChars == {"0", "1", "2", "3", "4", "5", "6", "7", "8", "9"}
DigitVal(ch) ==
    CASE ch = "0" -> 0 [] ch = "1" -> 1 [] ch = "2" -> 2 [] ch = "3" -> 3 [] ch = "4" -> 4
      [] ch = "5" -> 5 [] ch = "6" -> 6 [] ch = "7" -> 7 [] ch = "8" -> 8 [] OTHER -> 9
RECURSIVE ParseDigits(_, _)
ParseDigits(s, acc) ==
    IF s = <<>> THEN acc ELSE ParseDigits(Tail(s), 10 * acc + DigitVal(Head(s)))
IntOf(c) ==
    IF c.t = "int"
    THEN [ok |-> TRUE, n |-> c.n]
    ELSE IF c.t = "str" /\ c.s # <<>> /\ \A i \in 1..Len(c.s) : c.s[i] \in DigitChars
    THEN [ok |-> TRUE, n |-> ParseDigits(c.s, 0)]
    ELSE [ok |-> FALSE, n |-> 0]

\* rc = int(getattr(e, "code", 0) or 0)
ExitStatus(c) == IntOf(OrZero(c))

\* max(0.0, float(interval))
ClampInterval(x) == IF x > 0 THEN x ELSE 0

\* time.sleep(x) raises instead of waiting.
SleepRaises(x) == x \notin TimeT

\* A variant that subtracts the wrong way round (start - now).
BuildReportNegated(dur, al) ==
    [duration_sec |-> 0 - dur, auto_restore |-> auto_restore, targets |-> targets, alerts |-> al]

\* The report run() builds in its finally block.
BuildReport(dur, al) ==
    [duration_sec |-> dur, auto_restore |-> auto_restore, targets |-> targets, alerts |-> al]

RunLocals(old_argv, rc, start, outcome, exc) ==
    [old_argv |-> old_argv, rc |-> rc, start |-> start, outcome |-> outcome, exc |-> exc]

----------------------------------------------------------------------------
(* States after PatchTrap(targets, auto_restore, interval) *)

StartBind == [t \in Slots |-> IF t = NameF THEN F0 ELSE G0]
StartEnv  == [k \in {"B", "C"} |-> "x"]

\* __init__ with the interpreter in the given state.
Constructed(tgts, auto, iv, b, e) ==
    /\ targets = tgts
    /\ auto_restore = auto
    /\ interval = ClampInterval(iv)
    /\ baseline = NoEntries
    /\ originals = NoEntries
    /\ bind = b
    /\ frozen = FALSE
    /\ meta_path = MetaBase
    /\ env = e
    /\ meta_path0 = meta_path
    /\ env0 = env
    /\ alerts = <<>>
    /\ report = NoEntries
    /\ argv = StartArgv
    /\ report_file = <<>>
    /\ clock = 0
    /\ pc = "new"
    /\ run = RunLocals(<<>>, 0, 0, NotEnded, "none")
    /\ sealed = [status |-> "no", bind |-> b, meta_path |-> MetaBase, env |-> e]
    /\ last_scan = [n |-> 0, bind |-> b, frozen |-> FALSE, meta_path |-> MetaBase, env |-> e,
                    out |-> <<>>, after_seal |-> FALSE, rebound |-> {}]
    /\ trace = <<>>
    /\ rebound = {}

Init ==
    \E tgts \in TargetLists(Slots), auto \in BOOLEAN, iv \in IntervalInputs :
        Constructed(tgts, auto, iv, StartBind, StartEnv)

----------------------------------------------------------------------------
(* Operations *)

\* guard.seal()
Seal ==
    /\ pc = "new"
    /\ LET s == SealFrom(1, targets, bind, baseline, originals) IN
        /\ baseline' = s.baseline
        /\ originals' = s.originals
        /\ sealed' = [status |-> IF s.raised THEN "raised" ELSE "ok",
                      bind |-> bind, meta_path |-> meta_path, env |-> env]
    /\ pc' = "idle"
    /\ trace' = Append(trace, "seal")
    /\ rebound' = {}
    /\ UNCHANGED <<config, meta_path0, env0, alerts, report, heap, argv, report_file,
                   clock, run, last_scan>>

\* Code outside the monitor rebinds a watched name (setattr / delattr on m).
Rebind(t, v) ==
    /\ pc \in {"idle", "prog"}
    /\ bind[t] # v
    /\ bind' = [bind EXCEPT ![t] = v]
    /\ rebound' = rebound \cup {t}
    /\ UNCHANGED <<config, object, alerts, report, frozen, meta_path, env, argv,
                   report_file, clock, pc, run, sealed, last_scan, trace>>

\* guard._scan_once() called by the caller itself.
ScanDirect ==
    /\ pc \in {"new", "idle"}
    /\ LET s == ScanOnce IN
        /\ bind' = s.bind
        /\ alerts' = s.alerts
        /\ last_scan' = ScanRecord(s)
        /\ rebound' = {}
    /\ pc' = "scanned"
    /\ trace' = Append(trace, "scan")
    /\ UNCHANGED <<config, object, report, frozen, meta_path, env, argv, report_file,
                   clock, run, sealed>>

\* run(): from its first line to the call of runpy.run_path, the pre-scan
\* included when interval > 0.
RunBegin(args_line) ==
    /\ pc = "idle"
    /\ run' = RunLocals(argv, 0, clock, NotEnded, "none")
    /\ argv' = RunArgv(TargetPath, args_line)
    /\ IF interval > 0
       THEN LET s == ScanOnce IN
            /\ bind' = s.bind
            /\ alerts' = s.alerts
            /\ last_scan' = ScanRecord(s)
            /\ rebound' = {}
            /\ trace' = trace \o <<"scan", "prog_begin">>
       ELSE /\ UNCHANGED <<bind, alerts, last_scan, rebound>>
            /\ trace' = Append(trace, "prog_begin")
    /\ pc' = "prog"
    /\ UNCHANGED <<config, object, report, frozen, meta_path, env, report_file, clock, sealed>>

\* runpy.run_path stops: the script ran to its end, called sys.exit(code),
\* raised an Exception, or raised another BaseException (KeyboardInterrupt).
ProgEnd(o, dt) ==
    /\ pc = "prog"
    /\ run' = [run EXCEPT !.outcome = o]
    /\ clock' = clock + dt
    /\ pc' = "ended"
    /\ trace' = Append(trace, "prog_end")
    /\ UNCHANGED <<config, object, alerts, report, heap, argv, report_file, sealed, last_scan,
                   rebound>>

\* A variant of the final scan that takes what it finds as the new baseline.
RunAfterNormalResealing ==
    /\ pc = "ended"
    /\ run.outcome.kind = "normal"
    /\ interval > 0 => ~SleepRaises(interval)
    /\ clock' = clock + interval
    /\ LET s == ScanOnce IN
        /\ bind' = s.bind
        /\ alerts' = s.alerts
        /\ last_scan' = ScanRecord(s)
        /\ rebound' = {}
        /\ originals' = [t \in DOMAIN originals |-> s.bind[t]]
        /\ baseline' = [t \in DOMAIN baseline |->
                           [baseline[t] EXCEPT !.fp = FingerprintCallable(s.bind[t])]]
    /\ trace' = trace \o (IF interval > 0 THEN <<"sleep", "scan">> ELSE <<"scan">>)
    /\ pc' = "finally"
    /\ UNCHANGED <<config, meta_path0, env0, report, frozen, meta_path, env, argv,
                   report_file, run, sealed>>

\* run(): what follows run_path inside the try statement, by the way the script ended.
RunAfterNormal ==
    /\ pc = "ended"
    /\ run.outcome.kind = "normal"
    /\ interval > 0 => ~SleepRaises(interval)
    /\ clock' = clock + interval
    /\ LET s == ScanOnce IN
        /\ bind' = s.bind
        /\ alerts' = s.alerts
        /\ last_scan' = ScanRecord(s)
        /\ rebound' = {}
    /\ trace' = trace \o (IF interval > 0 THEN <<"sleep", "scan">> ELSE <<"scan">>)
    /\ pc' = "finally"
    /\ UNCHANGED <<config, object, report, frozen, meta_path, env, argv, report_file, run, sealed>>

\* time.sleep(self.interval) raises OverflowError after the script ran to its
\* end: the `except Exception` clause takes it and the final scan is not reached.
RunSleepRaises ==
    /\ pc = "ended"
    /\ run.outcome.kind = "normal"
    /\ interval > 0
    /\ SleepRaises(interval)
    /\ run' = [run EXCEPT !.rc = 1]
    /\ alerts' = Append(alerts, ExceptionAlert("OverflowError"))
    /\ pc' = "finally"
    /\ UNCHANGED <<config, object, report, heap, argv, report_file, clock, sealed,
                   last_scan, trace, rebound>>

RunAfterSystemExit ==
    /\ pc = "ended"
    /\ run.outcome.kind = "exit"
    /\ LET st == ExitStatus(run.outcome.code) IN
        run' = IF st.ok THEN [run EXCEPT !.rc = st.n] ELSE [run EXCEPT !.exc = "ValueError"]
    /\ pc' = "finally"
    /\ UNCHANGED <<config, object, alerts, report, heap, argv, report_file, clock, sealed,
                   last_scan, trace, rebound>>

RunAfterException ==
    /\ pc = "ended"
    /\ run.outcome.kind = "exception"
    /\ run' = [run EXCEPT !.rc = 1]
    /\ alerts' = Append(alerts, ExceptionAlert("RuntimeError"))
    /\ pc' = "finally"
    /\ UNCHANGED <<config, object, report, heap, argv, report_file, clock, sealed,
                   last_scan, trace, rebound>>

RunAfterInterrupt ==
    /\ pc = "ended"
    /\ run.outcome.kind = "interrupt"
    /\ run' = [run EXCEPT !.exc = "KeyboardInterrupt"]
    /\ pc' = "finally"
    /\ UNCHANGED <<config, object, alerts, report, heap, argv, report_file, clock, sealed,
                   last_scan, trace, rebound>>

\* run()'s finally block, then `return rc` or the pending exception.
RunFinally ==
    /\ pc = "finally"
    /\ argv' = run.old_argv
    /\ report' = BuildReport(clock - run.start, alerts)
    /\ report_file' = Append(report_file, report')
    /\ pc' = IF run.exc = "none" THEN "returned" ELSE "raised"
    /\ trace' = Append(trace, "report")
    /\ UNCHANGED <<config, object, alerts, heap, clock, run, sealed, last_scan, rebound>>

Next ==
    \/ Seal
    \/ \E t \in Slots, v \in {F0, G0} : Rebind(t, v)
    \/ \E a \in ArgLines : RunBegin(a)
    \/ \E o \in Outcomes, dt \in 0..MaxElapsed : ProgEnd(o, dt)
    \/ RunAfterNormal
    \/ RunSleepRaises
    \/ RunAfterSystemExit
    \/ RunAfterException
    \/ RunAfterInterrupt
    \/ RunFinally

Spec == Init /\ [][Next]_vars

----------------------------------------------------------------------------
(* The sealing and scanning engine called directly *)

\* Code outside the monitor makes module m reject setattr (for instance by
\* giving it a class whose __setattr__ raises).
Freeze ==
    /\ pc \in {"idle", "prog"}
    /\ ~frozen
    /\ frozen' = TRUE
    /\ UNCHANGED <<config, object, alerts, report, bind, meta_path, env, argv,
                   report_file, clock, pc, run, sealed, last_scan, trace, rebound>>

\* os.environ[k] = v
SetEnv(k, v) ==
    /\ pc \in {"new", "idle", "prog"}
    /\ IF k \in DOMAIN env THEN env[k] # v ELSE TRUE
    /\ env' = Put(env, k, v)
    /\ UNCHANGED <<config, object, alerts, report, bind, frozen, meta_path, argv,
                   report_file, clock, pc, run, sealed, last_scan, trace, rebound>>

\* del os.environ[k]
DelEnv(k) ==
    /\ pc \in {"new", "idle", "prog"}
    /\ k \in DOMAIN env
    /\ env' = [x \in DOMAIN env \ {k} |-> env[x]]
    /\ UNCHANGED <<config, object, alerts, report, bind, frozen, meta_path, argv,
                   report_file, clock, pc, run, sealed, last_scan, trace, rebound>>

\* sys.meta_path[:] = mp
SetMetaPath(mp) ==
    /\ pc \in {"new", "idle", "prog"}
    /\ meta_path # mp
    /\ meta_path' = mp
    /\ UNCHANGED <<config, object, alerts, report, bind, frozen, env, argv,
                   report_file, clock, pc, run, sealed, last_scan, trace, rebound>>

\* The bindings module m can have when the PatchTrap object is built.
ScanStartBinds ==
    {b \in [Slots -> {F0, G0, Missing}] : b[NameF] \in {F0, Missing} /\ b[NameG] \in {G0, Missing}}

InitScan ==
    \E tgts \in TargetLists(TargetNames), auto \in BOOLEAN, b \in ScanStartBinds :
        Constructed(tgts, auto, 0, b, StartEnv)

\* sys.meta_path with a hook inserted in front by code outside the monitor.
DriftMetaPath == <<Hook("EvilFinder", 0)>> \o MetaBase

\* What code running between seal() and the scan changes besides the bindings.
ScanDriftKey == "A"
ScanDriftVal == "y"

NextScan ==
    \/ Seal
    \/ \E t \in Slots, v \in Values \cup {Missing} : pc = "idle" /\ Rebind(t, v)
    \/ Freeze
    \/ pc = "idle" /\ SetEnv(ScanDriftKey, ScanDriftVal)
    \/ pc = "idle" /\ SetMetaPath(DriftMetaPath)
    \/ ScanDirect

SpecScan == InitScan /\ [][NextScan]_vars

----------------------------------------------------------------------------
(* The ambient checks over every environment *)

\* What code running between PatchTrap(...) and seal() changes.
DriftKeys == {"A"}

InitEnv ==
    \E auto \in BOOLEAN, e \in Envs : Constructed(<<NameF>>, auto, 0, StartBind, e)

NextEnv ==
    \/ \E k \in DriftKeys, v \in EnvVals : pc = "new" /\ SetEnv(k, v)
    \/ pc = "new" /\ SetMetaPath(DriftMetaPath)
    \/ Seal
    \/ \E k \in EnvKeys, v \in EnvVals : pc = "idle" /\ SetEnv(k, v)
    \/ \E k \in EnvKeys : pc = "idle" /\ DelEnv(k)
    \/ \E mp \in MetaPaths : pc = "idle" /\ SetMetaPath(mp)
    \/ pc = "idle" /\ Rebind(NameF, G0)
    \/ ScanDirect

SpecEnv == InitEnv /\ [][NextEnv]_vars

----------------------------------------------------------------------------
(* Vocabulary of the properties *)

RunOver == pc \in {"returned", "raised"}

\* The positions of event e in the trace.
At(e) == {i \in 1..Len(trace) : trace[i] = e}

\* The alerts of a log that are of kind k and name target t.
AlertsFor(log, k, t) ==
    {i \in 1..Len(log) : log[i].kind = k /\ log[i].target = t}
AlertsOfKind(log, k) == {i \in 1..Len(log) : log[i].kind = k}

Hash(v) == FingerprintCallable(v).hash

----------------------------------------------------------------------------
(* C1: in every execution of run(), a scan is performed after the guarded    *)
(* script stops and before the report is written, whichever way the script   *)
(* stops; in particular a sealed binding the script leaves replaced is       *)
(* reported as `replaced` in the report.                                     *)
C1_ScanAfterScriptStops ==
    RunOver =>
        /\ \E i \in At("prog_end"), j \in At("scan"), k \in At("report") : i < j /\ j < k
        /\ \A n \in 1..Len(targets) :
            LET t == targets[n] IN
            (t \in DOMAIN baseline /\ bind[t] # Missing /\ Hash(bind[t]) # baseline[t].fp.hash)
                => AlertsFor(report_file[Len(report_file)].alerts, "replaced", t) # {}

(* C2: for every way the script can end, the report is built and written     *)
(* exactly once, after every scan and every alert append of the run, with    *)
(* duration_sec >= 0 and with the whole alert log in append order.           *)
C2_ReportWrittenOnce ==
    /\ ~RunOver => report_file = <<>>
    /\ RunOver =>
        /\ Len(report_file) = 1
        /\ Cardinality(At("report")) = 1
        /\ trace[Len(trace)] = "report"
        /\ report_file[1] = report
        /\ report_file[1].duration_sec >= 0
        /\ report_file[1].alerts = alerts
        /\ report_file[1].targets = targets
        /\ report_file[1].auto_restore = auto_restore

\* A run ended by an unhandled exception, after a pre-scan that reported a
\* replacement, that took time: its report holds the alerts of both.
C2_Witness ==
    /\ pc = "returned"
    /\ run.outcome.kind = "exception"
    /\ Len(report_file) = 1
    /\ report_file[1].duration_sec > 0
    /\ AlertsOfKind(report_file[1].alerts, "replaced") # {}
    /\ AlertsOfKind(report_file[1].alerts, "exception") # {}

(* C3: run() returns the exit code the script requested, for every value it  *)
(* can request (an integer, nothing, a string); 1 when an exception escapes  *)
(* the script; 0 when the script runs to its end.                            *)
C3_ExitStatusMapping ==
    (RunOver /\ run.outcome.kind \in {"normal", "exception", "exit"}) =>
        /\ pc = "returned"
        /\ run.outcome.kind = "normal" => run.rc = 0
        /\ run.outcome.kind = "exception" => run.rc = 1
        /\ (run.outcome.kind = "exit" /\ run.outcome.code.t = "int") => run.rc = run.outcome.code.n
        /\ (run.outcome.kind = "exit" /\ run.outcome.code.t = "none") => run.rc = 0

----------------------------------------------------------------------------
(* Vocabulary of the scan properties: last_scan holds the state the latest  *)
(* _scan_once() started in (bind, frozen, meta_path, env) and the alerts it *)
(* appended (out).                                                          *)

Scanned == last_scan.n >= 1
Out == last_scan.out
Occurrences(t) == Cardinality({i \in 1..Len(targets) : targets[i] = t})
Listed == {targets[i] : i \in 1..Len(targets)}
ResolvedAtScan(t) == ResolveDotted(t, last_scan.bind).ok
RestoreAlerts(t, status) == {i \in AlertsFor(Out, "restore", t) : Out[i].status = status}

(* C4: for every sealed target bound to a different value when a scan       *)
(* starts, the scan appends exactly one `replaced` alert naming it, with    *)
(* before.hash the hash stored at seal and after.hash the hash of the value *)
(* bound at scan time (for every replacement value and every target list).  *)
C4_ExactlyOneReplaced ==
    Scanned =>
        \A t \in DOMAIN baseline :
            (last_scan.bind[t] # Missing /\ last_scan.bind[t] # originals[t]) =>
                /\ Cardinality(AlertsFor(Out, "replaced", t)) = 1
                /\ \A i \in AlertsFor(Out, "replaced", t) :
                    /\ Out[i].before.hash = baseline[t].fp.hash
                    /\ Out[i].after.hash = Hash(last_scan.bind[t])

(* C4 as amended: a sealed target is reported when the fingerprint hash of  *)
(* its value at scan time differs from the sealed hash, once per occurrence *)
(* of the target in the list that the loop reaches while it still differs   *)
(* (once in all when auto_restore rebinds it), with the sealed fingerprint  *)
(* as before and the fingerprint of the value found as after; a value with  *)
(* the sealed hash is not reported.                                         *)
C4_ReplacedPerOccurrence ==
    Scanned =>
        \A t \in DOMAIN baseline :
            LET v == last_scan.bind[t]
                R == AlertsFor(Out, "replaced", t)
            IN  /\ (v = Missing \/ Hash(v) = baseline[t].fp.hash) => R = {}
                /\ (v # Missing /\ Hash(v) # baseline[t].fp.hash) =>
                    /\ Cardinality(R) =
                          IF auto_restore /\ ~last_scan.frozen THEN 1 ELSE Occurrences(t)
                    /\ \A i \in R :
                        /\ Out[i].before = baseline[t].fp
                        /\ Out[i].before.hash = Hash(originals[t])
                        /\ Out[i].after = FingerprintCallable(v)

\* A target named twice and left replaced is reported twice by one scan.
C4_Witness ==
    /\ Scanned
    /\ \E t \in DOMAIN baseline :
        /\ Occurrences(t) = 2
        /\ Cardinality(AlertsFor(Out, "replaced", t)) = 2

(* C5: when a scan reports a target as replaced: with auto_restore on, a   *)
(* `restore` alert with status ok is appended and the target resolves to    *)
(* the value retained at seal; with auto_restore off, no `restore` alert is *)
(* appended and the target stays bound to the replacement.                  *)
C5_RestoreAlwaysOk ==
    pc = "scanned" =>
        \A t \in DOMAIN baseline :
            AlertsFor(Out, "replaced", t) # {} =>
                IF auto_restore
                THEN RestoreAlerts(t, "ok") # {} /\ bind[t] = originals[t]
                ELSE AlertsFor(Out, "restore", t) = {} /\ bind[t] = last_scan.bind[t]

(* C5 as amended: with auto_restore on, the `restore` alert has status ok  *)
(* and the target resolves to the retained value when the rebinding         *)
(* succeeds, and has status fail, the target staying bound to the           *)
(* replacement, when setattr raises; with auto_restore off as in C5.        *)
C5_RestoreOutcome ==
    pc = "scanned" =>
        \A t \in DOMAIN baseline :
            AlertsFor(Out, "replaced", t) # {} =>
                /\ (auto_restore /\ ~last_scan.frozen) =>
                    /\ Cardinality(RestoreAlerts(t, "ok")) = 1
                    /\ RestoreAlerts(t, "fail") = {}
                    /\ bind[t] = originals[t]
                /\ (auto_restore /\ last_scan.frozen) =>
                    /\ RestoreAlerts(t, "fail") # {}
                    /\ RestoreAlerts(t, "ok") = {}
                    /\ bind[t] = last_scan.bind[t]
                /\ ~auto_restore =>
                    /\ AlertsFor(Out, "restore", t) = {}
                    /\ bind[t] = last_scan.bind[t]

\* A replaced target was rebound to its original by the scan.
C5_Witness ==
    /\ pc = "scanned"
    /\ \E t \in DOMAIN baseline :
        /\ AlertsFor(Out, "replaced", t) # {}
        /\ RestoreAlerts(t, "ok") # {}
        /\ last_scan.bind[t] # originals[t]
        /\ bind[t] = originals[t]

(* C6: a scan run right after seal(), nothing having changed since the     *)
(* seal, appends no replaced, no hook-chain and no environment alert: the   *)
(* ambient baseline is the hook chain and environment as of seal().         *)
C6_ScanAfterSealIsQuiet ==
    (/\ Scanned
     /\ last_scan.after_seal
     /\ last_scan.bind = sealed.bind
     /\ last_scan.meta_path = sealed.meta_path
     /\ last_scan.env = sealed.env) =>
        /\ AlertsOfKind(Out, "replaced") = {}
        /\ AlertsOfKind(Out, "meta_path_changed") = {}
        /\ AlertsOfKind(Out, "env_changed") = {}

(* C7: a scan appends exactly one environment alert when the environment   *)
(* differs from the baseline and none when it is equal; its `added` is the  *)
(* variables present now only (current values), `removed` those present at  *)
(* baseline only (baseline values), `changed` those present in both with    *)
(* different values (before and after); the three are pairwise disjoint.    *)
C7_EnvDiffPartitions ==
    Scanned =>
        LET e0 == env0
            e  == last_scan.env
            E  == AlertsOfKind(Out, "env_changed")
            same == DOMAIN e = DOMAIN e0 /\ \A k \in DOMAIN e : e[k] = e0[k]
        IN  /\ Cardinality(E) = IF same THEN 0 ELSE 1
            /\ \A i \in E :
                LET a == Out[i] IN
                /\ DOMAIN a.added \cap DOMAIN a.removed = {}
                /\ DOMAIN a.added \cap DOMAIN a.changed = {}
                /\ DOMAIN a.removed \cap DOMAIN a.changed = {}
                /\ \A k \in EnvKeys \cup DOMAIN a.added \cup DOMAIN a.removed \cup DOMAIN a.changed :
                    /\ k \in DOMAIN a.added <=> (k \in DOMAIN e /\ k \notin DOMAIN e0)
                    /\ k \in DOMAIN a.removed <=> (k \in DOMAIN e0 /\ k \notin DOMAIN e)
                    /\ k \in DOMAIN a.changed <=>
                          (k \in DOMAIN e /\ k \in DOMAIN e0 /\ e[k] # e0[k])
                    /\ k \in DOMAIN a.added => a.added[k] = e[k]
                    /\ k \in DOMAIN a.removed => a.removed[k] = e0[k]
                    /\ k \in DOMAIN a.changed =>
                          a.changed[k] = [before |-> e0[k], after |-> e[k]]

\* One scan reports a variable added, one removed and one changed.
C7_Witness ==
    /\ Scanned
    /\ \E i \in AlertsOfKind(Out, "env_changed") :
        /\ DOMAIN Out[i].added # {}
        /\ DOMAIN Out[i].removed # {}
        /\ DOMAIN Out[i].changed # {}

(* C8: seal() on a list holding a target that does not resolve raises; it  *)
(* never returns normally leaving a target without a baseline entry.        *)
C8_SealRaisesOnUnresolvable ==
    sealed.status # "no" =>
        /\ (\E i \in 1..Len(targets) : ~ResolveDotted(targets[i], sealed.bind).ok)
              => sealed.status = "raised"
        /\ sealed.status = "ok" =>
              \A i \in 1..Len(targets) :
                  targets[i] \in DOMAIN baseline /\ targets[i] \in DOMAIN originals

\* seal() raised on the second target, the first one sealed.
C8_Witness ==
    /\ sealed.status = "raised"
    /\ Len(targets) = 2
    /\ targets[1] \in DOMAIN baseline
    /\ targets[2] \notin DOMAIN baseline

(* C9: a target that fails to resolve does not block sealing the others:   *)
(* after seal(), every target of the list that resolves, before or after    *)
(* the failing one, has a baseline entry and a retained original.           *)
C9_SealReachesEveryResolvable ==
    sealed.status # "no" =>
        \A i \in 1..Len(targets) :
            ResolveDotted(targets[i], sealed.bind).ok =>
                targets[i] \in DOMAIN baseline /\ targets[i] \in DOMAIN originals

(* C10: for a target without a baseline entry a scan appends no alert of   *)
(* any kind, whether or not the target resolves, and goes on with the       *)
(* remaining targets.                                                       *)
C10_UnsealedTargetSilent ==
    Scanned =>
        \A t \in Listed \ DOMAIN baseline :
            /\ AlertsFor(Out, "resolve_error", t) = {}
            /\ AlertsFor(Out, "replaced", t) = {}
            /\ AlertsFor(Out, "restore", t) = {}

(* C10 as amended: for a target without a baseline entry a scan appends no *)
(* `replaced` and no `restore` alert; it appends nothing for it when the    *)
(* target resolves and one resolve_error alert per occurrence when it does  *)
(* not, and goes on with the remaining targets.                             *)
C10_UnsealedTargetOnlyResolveError ==
    Scanned =>
        \A t \in Listed \ DOMAIN baseline :
            /\ Cardinality(AlertsFor(Out, "resolve_error", t)) =
                  IF ResolvedAtScan(t) THEN 0 ELSE Occurrences(t)
            /\ AlertsFor(Out, "replaced", t) = {}
            /\ AlertsFor(Out, "restore", t) = {}

\* The first target is unsealed and resolves: nothing is appended for it,
\* and the second target is still processed.
C10_Witness ==
    /\ Scanned
    /\ Len(targets) = 2
    /\ targets[1] \notin DOMAIN baseline
    /\ ResolvedAtScan(targets[1])
    /\ AlertsFor(Out, "resolve_error", targets[1]) = {}
    /\ AlertsFor(Out, "resolve_error", targets[2]) # {}

----------------------------------------------------------------------------
(* C11: every run scans before the guarded script is started and again     *)
(* after it has stopped, for every interval, interval 0 included (pre-scan, *)
(* run, post-scan); so whatever was rebound between seal() and the start of *)
(* the script has been scanned (reported, and restored with auto_restore    *)
(* on) by the time the script starts.                                       *)
C11_ScanBeforeAndAfterScript ==
    /\ \A i \in At("prog_begin") :
        /\ \E j \in At("scan") : j < i
        /\ last_scan.n >= 1
    /\ RunOver => \E i \in At("prog_end"), j \in At("scan") : i < j

(* C12: the alert log of a run holds an `exception` alert if and only if an *)
(* exception escaped the guarded script; a run whose script asks to exit    *)
(* with a code, or runs to its end, has none; and no run appends more than  *)
(* one.                                                                     *)
C12_ExceptionAlertIffScriptRaised ==
    /\ Cardinality(AlertsOfKind(alerts, "exception")) <= 1
    /\ (RunOver /\ run.outcome.kind \in {"normal", "exit", "exception"}) =>
        (AlertsOfKind(alerts, "exception") # {} <=> run.outcome.kind = "exception")

(* C13: the alert log is append-only: every step of seal, scan, restore and *)
(* run leaves a log that has the log before the step as a prefix, so the    *)
(* log of every earlier state is a prefix of the log of every later one.    *)
IsPrefix(s, t) == Len(s) <= Len(t) /\ SubSeq(t, 1, Len(s)) = s
C13_AlertsAppendOnly == [][IsPrefix(alerts, alerts')]_vars

\* The final scan appended to a log that already held the alerts of the
\* pre-scan.
C13_Witness ==
    /\ last_scan.n = 2
    /\ Out # <<>>
    /\ Len(alerts) > Len(Out)
    /\ SubSeq(alerts, Len(alerts) - Len(Out) + 1, Len(alerts)) = Out
    /\ AlertsOfKind(SubSeq(alerts, 1, Len(alerts) - Len(Out)), "replaced") # {}

(* C14: a restore is attempted only with auto_restore on and at most once   *)
(* per mismatch per scan: in every alert log each `restore` alert comes     *)
(* right after a `replaced` alert for the same target appended by the same  *)
(* scan, no `replaced` alert is followed by two `restore` alerts, and with  *)
(* auto_restore off the log holds no `restore` alert and a scan writes no   *)
(* watched binding (the only write a scan makes is the original, put back). *)
RestoreFollowsReplaced(log) ==
    \A i \in AlertsOfKind(log, "restore") :
        /\ i > 1
        /\ log[i - 1].kind = "replaced"
        /\ log[i - 1].target = log[i].target
        /\ i < Len(log) => log[i + 1].kind # "restore"
C14_RestoreOnlyWhenEnabled ==
    [][/\ RestoreFollowsReplaced(alerts')
       /\ RestoreFollowsReplaced(last_scan'.out)
       /\ ~auto_restore => AlertsOfKind(alerts', "restore") = {}
       /\ last_scan'.n # last_scan.n =>
            \A t \in Slots :
                bind'[t] # bind[t] =>
                    /\ auto_restore
                    /\ t \in DOMAIN originals
                    /\ bind'[t] = originals[t]
                    /\ \E i \in AlertsFor(last_scan'.out, "restore", t) :
                          last_scan'.out[i].status = "ok"]_vars

\* One scan found two targets replaced and restored each of them once.
C14_Witness ==
    /\ pc = "scanned"
    /\ auto_restore
    /\ Len(Out) = 4
    /\ Out[1].kind = "replaced" /\ Out[2].kind = "restore" /\ Out[2].target = Out[1].target
    /\ Out[3].kind = "replaced" /\ Out[4].kind = "restore" /\ Out[4].target = Out[3].target
    /\ Out[3].target # Out[1].target
    /\ bind # last_scan.bind

(* C15: no failure on one target aborts a scan: a target that does not      *)
(* resolve gets a resolve_error alert (one per occurrence in the list); a   *)
(* restore that fails gets a `restore` alert with status fail and the       *)
(* reason, the binding staying as found; and in both cases every other      *)
(* target of the list, before or after the failing one, gets the alerts due *)
(* to it and the hook-chain and environment checks of the scan are made.    *)
MismatchAtScan(t) ==
    /\ t \in DOMAIN baseline
    /\ ResolvedAtScan(t)
    /\ Hash(last_scan.bind[t]) # baseline[t].fp.hash
C15_FailuresDoNotAbortScan ==
    Scanned =>
        /\ \A t \in Listed :
            /\ ~ResolvedAtScan(t) =>
                /\ Cardinality(AlertsFor(Out, "resolve_error", t)) = Occurrences(t)
                /\ \A i \in AlertsFor(Out, "resolve_error", t) :
                      Out[i].error \in {"ValueError", "AttributeError"}
            /\ (MismatchAtScan(t) /\ auto_restore /\ last_scan.frozen) =>
                /\ Cardinality(AlertsFor(Out, "replaced", t)) = Occurrences(t)
                /\ Cardinality(RestoreAlerts(t, "fail")) = Occurrences(t)
                /\ RestoreAlerts(t, "ok") = {}
                /\ \A i \in RestoreAlerts(t, "fail") : Out[i].error = "AttributeError"
                /\ pc = "scanned" => bind[t] = last_scan.bind[t]
            /\ MismatchAtScan(t) => AlertsFor(Out, "replaced", t) # {}
            /\ (MismatchAtScan(t) /\ auto_restore) => AlertsFor(Out, "restore", t) # {}
        /\ Cardinality(AlertsOfKind(Out, "meta_path_changed")) =
              IF HookNames(last_scan.meta_path) # HookNames(meta_path0) THEN 1 ELSE 0
        /\ Cardinality(AlertsOfKind(Out, "env_changed")) =
              IF last_scan.env # env0 THEN 1 ELSE 0

\* The first target did not resolve, the restore of the second one failed,
\* and the scan still reported the hook chain and the environment.
C15_Witness ==
    /\ pc = "scanned"
    /\ Len(targets) = 2
    /\ Len(Out) = 5
    /\ Out[1] = ResolveErrorAlert(targets[1], "AttributeError")
    /\ Out[2].kind = "replaced" /\ Out[2].target = targets[2]
    /\ Out[3] = RestoreFailAlert(targets[2], "AttributeError")
    /\ Out[4].kind = "meta_path_changed"
    /\ Out[5].kind = "env_changed"
    /\ bind = last_scan.bind

(* C16: with a positive interval and a guarded script that runs to its end, *)
(* the run makes exactly two scans, one before the script starts and one    *)
(* after it has stopped, the idle wait lying between the end of the script  *)
(* and the final scan; and for no interval is a scan made while the script  *)
(* runs.                                                                    *)
C16_TwoScansAroundScript ==
    /\ (RunOver /\ interval > 0 /\ run.outcome.kind = "normal") =>
        trace = <<"seal", "scan", "prog_begin", "prog_end", "sleep", "scan", "report">>
    /\ \A j \in At("scan") :
        \A b \in At("prog_begin"), e \in At("prog_end") : ~(b < j /\ j < e)
    /\ pc = "prog" => \A j \in At("scan"), b \in At("prog_begin") : j < b

(* C17: a scan appends a hook-chain alert, carrying the sealed and the      *)
(* current sequences of hook type names, if and only if the current         *)
(* sequence differs (in length, order or content) from the sealed one; at   *)
(* most one per scan, after every per-target alert of the scan and before   *)
(* the environment alert.                                                   *)
PerTargetKinds == {"resolve_error", "replaced", "restore"}
C17_HookChainAlert ==
    (Scanned /\ sealed.status # "no") =>
        LET M == AlertsOfKind(Out, "meta_path_changed")
            sealed_names == HookNames(sealed.meta_path)
            now_names == HookNames(last_scan.meta_path)
        IN  /\ Cardinality(M) = IF now_names # sealed_names THEN 1 ELSE 0
            /\ \A i \in M :
                /\ Out[i].before = sealed_names
                /\ Out[i].after = now_names
                /\ \A j \in 1..Len(Out) :
                    /\ Out[j].kind \in PerTargetKinds => j < i
                    /\ Out[j].kind = "env_changed" => i < j

(* C18: after seal() no scan, restore or run step changes the baseline: the *)
(* fingerprint, container label, attribute name and retained original of    *)
(* every sealed target and the baseline hook chain and environment snapshot *)
(* are the same in every later state, so every later scan compares against  *)
(* the values taken at seal (what drifted is never taken as a new baseline).*)
SealedValuesKept ==
    sealed.status # "no" =>
        /\ DOMAIN originals = DOMAIN baseline
        /\ \A t \in DOMAIN baseline :
            /\ originals[t] = sealed.bind[t]
            /\ baseline[t] = [fp |-> FingerprintCallable(sealed.bind[t]),
                              container |-> t[1], attr |-> t[Len(t)]]
        /\ Scanned =>
            \A i \in AlertsOfKind(Out, "replaced") :
                Out[i].before = FingerprintCallable(sealed.bind[Out[i].target])
C18_BaselineFrozenAfterSeal ==
    [][/\ sealed.status # "no" =>
            /\ baseline' = baseline
            /\ originals' = originals
            /\ meta_path0' = meta_path0
            /\ env0' = env0
       /\ SealedValuesKept']_vars

\* A run is over in which both scans found a sealed binding replaced, the
\* first one restored it, and the baseline is the one seal() stored.
C18_Witness ==
    /\ RunOver
    /\ last_scan.n = 2
    /\ DOMAIN baseline # {}
    /\ AlertsOfKind(Out, "replaced") # {}
    /\ \E i \in AlertsOfKind(alerts, "restore") : i <= Len(alerts) - Len(Out)
    /\ \A t \in DOMAIN baseline : baseline[t].fp = FingerprintCallable(sealed.bind[t])

(* C19: detection depends on the value a binding holds at the checkpoint    *)
(* only, not on what happened to it before: a sealed binding that was       *)
(* rebound any number of times since the previous checkpoint but holds the  *)
(* sealed original when the scan starts gets no `replaced` and no `restore` *)
(* alert from that scan.                                                    *)
C19_OnlyValueAtCheckpointCounts ==
    Scanned =>
        \A t \in DOMAIN baseline :
            last_scan.bind[t] = originals[t] =>
                /\ AlertsFor(Out, "replaced", t) = {}
                /\ AlertsFor(Out, "restore", t) = {}

\* The script rebound a watched name and put the original back before it
\* ended: the final scan, which reported another name, has nothing for it.
C19_Witness ==
    /\ last_scan.n = 2
    /\ \E t \in DOMAIN baseline :
        /\ t \in last_scan.rebound
        /\ last_scan.bind[t] = originals[t]
        /\ AlertsFor(alerts, "replaced", t) = {}
    /\ AlertsOfKind(Out, "replaced") # {}

(* C20: run() sets sys.argv to [target_path] followed by the args string    *)
(* split at whitespace, leaves it so until the guarded script has stopped,  *)
(* and on every way out (normal, exit, exception) sets it back to the list  *)
(* saved at the start of run().                                             *)
ExpectedArgv(a) ==
    CASE a = <<>>                   -> <<TargetPath>>
      [] a = <<"a", " ", " ", "b">> -> <<TargetPath, <<"a">>, <<"b">>>>
      [] a = <<" ", "b", " ">>      -> <<TargetPath, <<"b">>>>
C20_ArgvSetAndRestored ==
    [][/\ \A a \in ArgLines :
            (pc = "idle" /\ pc' = "prog" /\ RunBegin(a)) =>
                /\ argv' = ExpectedArgv(a)
                /\ run'.old_argv = argv
       /\ (pc \in {"prog", "ended"} /\ pc' \in {"prog", "ended", "finally"}) => argv' = argv
       /\ (pc = "finally" /\ pc' \in {"returned", "raised"}) =>
            /\ argv' = run.old_argv
            /\ argv' = StartArgv]_vars

\* A run whose script asked to exit with a code int() rejects: run() raised
\* and sys.argv is back to what it was.
C20_Witness ==
    /\ pc = "raised"
    /\ run.outcome.kind = "exit"
    /\ run.exc = "ValueError"
    /\ argv = StartArgv
    /\ run.old_argv = StartArgv
    /\ report # NoEntries

====
